---- MODULE Spec2Model ----
(***************************************************************************)
(* Model of the TestAgent tool-calling loop                                *)
(*   backend/orchestrators/test_agent_orchestrator/graph.py, state.py      *)
(* and of the math tool handlers it drives                                 *)
(*   backend/mcp_servers/math_tools/server.py                              *)
(*                                                                         *)
(* Four specifications share the module:                                   *)
(*   Spec        the LangGraph workflow call_llm -> should_call_tool ->    *)
(*               call_tool -> call_llm ... for one conversation thread;    *)
(*   SpecMath    the tool handlers as pure functions applied to inputs     *)
(*               drawn from bounded sets;                                  *)
(*   SpecThreads two conversation threads whose nodes run interleaved;     *)
(*   SpecEquation the workflow after the model asked for solve_equation.   *)
(*                                                                         *)
(* Python strings are modelled as sequences of tokens: a token is either a *)
(* literal piece of text or the str() of a number, so that an f-string is  *)
(* the concatenation of its pieces and "s contains v" is checkable.        *)
(***************************************************************************)
EXTENDS Integers, Sequences, FiniteSets, TLC

VARIABLES messages, pc, idx, inflight, tool_messages, toolLog, llmCalls,
          nextId, turns, raised, llm_input, mathPc, mathCall, mathOut,
          threads, shared

loopVars == <<messages, pc, idx, inflight, tool_messages, toolLog, llmCalls,
              nextId, turns, raised, llm_input>>
mathVars == <<mathPc, mathCall, mathOut>>
threadVars == <<threads, shared>>
vars == <<messages, pc, idx, inflight, tool_messages, toolLog, llmCalls,
          nextId, turns, raised, llm_input, mathPc, mathCall, mathOut,
          threads, shared>>

----------------------------------------------------------------------------
(* Bounds                                                                  *)

\* invocations of the model on the conversation thread
MaxLLMCalls == 3
\* tool calls carried by one model response
MaxCalls == 2
\* tool calls requested on the conversation thread (caps the id counter)
MaxToolCalls == 2
\* user turns on the conversation thread
MaxTurns == 2
\* handler arguments range over -MaxNum .. MaxNum
MaxNum == 4
\* square roots are kept to multiples of 1/SqrtScale
SqrtScale == 100
\* invocations of the model on each of the concurrent threads
MaxThreadCalls == 1

----------------------------------------------------------------------------
(* Numbers and strings                                                     *)

\* a Python number: the rational n/d (d > 0, lowest terms); isFloat tells
\* int from float, which str() shows ("2" against "2.0")
IntNum(n) == [n |-> n, d |-> 1, isFloat |-> FALSE]

Abs(n) == IF n < 0 THEN -n ELSE n

RECURSIVE GCD(_, _)
GCD(m, n) == IF n = 0 THEN m ELSE GCD(n, m % n)

\* a piece of literal text inside a string
Lit(s) == [k |-> "lit", s |-> s, x |-> IntNum(0)]

\* str(x) of a number x, as f"{x}" inserts it
Str(x) == [k |-> "num", s |-> "", x |-> x]

\* "v in s" for the str() of a number v
Contains(s, x) == \E i \in 1..Len(s) : s[i] = Str(x)

\* the last element of a sequence
Last(s) == s[Len(s)]

\* prefix order on sequences
IsPrefix(s, t) == Len(s) <= Len(t) /\ SubSeq(t, 1, Len(s)) = s

----------------------------------------------------------------------------
(* Tool handlers (math_tools/server.py)                                    *)
(* A handler either returns a dict or raises: [raised, value, exc].        *)
(* The signs of multiplication and division in the expression strings are  *)
(* written " x " and " / ".                                                *)

NoExc == [type |-> "", msg |-> <<>>]
Returned(v) == [raised |-> FALSE, value |-> v, exc |-> NoExc]
Raise(type, msg) == [raised |-> TRUE, value |-> <<>>, exc |-> [type |-> type, msg |-> msg]]

\* a + b, a - b, a * b on ints stay ints
PyAdd(a, b) == IntNum(a.n + b.n)
PySub(a, b) == IntNum(a.n - b.n)
PyMul(a, b) == IntNum(a.n * b.n)

\* a / b is true division: always a float, the exact quotient in lowest terms
PyTrueDiv(a, b) ==
    LET num == a.n * b.d
        den == a.d * b.n
        sgn == IF den < 0 THEN -1 ELSE 1
        g == GCD(Abs(num), Abs(den))
    IN [n |-> (sgn * num) \div g, d |-> (sgn * den) \div g, isFloat |-> TRUE]

\* a // b, what divide would compute with floor division
PyFloorDiv(a, b) ==
    IF b.n < 0 THEN IntNum((-a.n) \div (-b.n)) ELSE IntNum(a.n \div b.n)

add(a, b) ==
    LET result == PyAdd(a, b)
    IN Returned([operation |-> "addition",
                 expression |-> <<Str(a), Lit(" + "), Str(b)>>,
                 result |-> result,
                 steps |-> << <<Lit("Step 1: Add "), Str(a), Lit(" and "), Str(b)>>,
                              <<Str(a), Lit(" + "), Str(b), Lit(" = "), Str(result)>>,
                              <<Lit("Final result: "), Str(result)>> >>])

\* subtract with a trace that stops before the final line
subtract_nofinal(a, b) ==
    LET result == PySub(a, b)
    IN Returned([operation |-> "subtraction",
                 expression |-> <<Str(a), Lit(" - "), Str(b)>>,
                 result |-> result,
                 steps |-> << <<Lit("Step 1: Subtract "), Str(b), Lit(" from "), Str(a)>> >>])

subtract(a, b) ==
    LET result == PySub(a, b)
    IN Returned([operation |-> "subtraction",
                 expression |-> <<Str(a), Lit(" - "), Str(b)>>,
                 result |-> result,
                 steps |-> << <<Lit("Step 1: Subtract "), Str(b), Lit(" from "), Str(a)>>,
                              <<Str(a), Lit(" - "), Str(b), Lit(" = "), Str(result)>>,
                              <<Lit("Final result: "), Str(result)>> >>])

\* multiply with the sum taken for the product
multiply_sum(a, b) ==
    LET result == PyAdd(a, b)
    IN Returned([operation |-> "multiplication",
                 expression |-> <<Str(a), Lit(" x "), Str(b)>>,
                 result |-> result,
                 steps |-> << <<Lit("Step 1: Multiply "), Str(a), Lit(" by "), Str(b)>>,
                              <<Str(a), Lit(" x "), Str(b), Lit(" = "), Str(result)>>,
                              <<Lit("Final result: "), Str(result)>> >>])

multiply(a, b) ==
    LET result == PyMul(a, b)
    IN Returned([operation |-> "multiplication",
                 expression |-> <<Str(a), Lit(" x "), Str(b)>>,
                 result |-> result,
                 steps |-> << <<Lit("Step 1: Multiply "), Str(a), Lit(" by "), Str(b)>>,
                              <<Str(a), Lit(" x "), Str(b), Lit(" = "), Str(result)>>,
                              <<Lit("Final result: "), Str(result)>> >>])

\* divide with the quotient taken by floor division
divide_floor(a, b) ==
    IF b.n = 0
    THEN Raise("ValueError", <<Lit("Cannot divide by zero")>>)
    ELSE LET result == PyFloorDiv(a, b)
         IN Returned([operation |-> "division",
                      expression |-> <<Str(a), Lit(" / "), Str(b)>>,
                      result |-> result,
                      steps |-> << <<Lit("Step 1: Divide "), Str(a), Lit(" by "), Str(b)>>,
                                   <<Str(a), Lit(" / "), Str(b), Lit(" = "), Str(result)>>,
                                   <<Lit("Final result: "), Str(result)>> >>])

divide(a, b) ==
    IF b.n = 0
    THEN Raise("ValueError", <<Lit("Cannot divide by zero")>>)
    ELSE LET result == PyTrueDiv(a, b)
         IN Returned([operation |-> "division",
                      expression |-> <<Str(a), Lit(" / "), Str(b)>>,
                      result |-> result,
                      steps |-> << <<Lit("Step 1: Divide "), Str(a), Lit(" by "), Str(b)>>,
                                   <<Str(a), Lit(" / "), Str(b), Lit(" = "), Str(result)>>,
                                   <<Lit("Final result: "), Str(result)>> >>])

\* base ** exponent for a natural exponent
RECURSIVE IntPow(_, _)
IntPow(b, e) == IF e = 0 THEN 1 ELSE b * IntPow(b, e - 1)

\* base ** exponent on ints: an int for exponent >= 0, a float below, and
\* ZeroDivisionError for 0 to a negative power
PyPow(base, exponent) ==
    IF exponent.n >= 0
    THEN Returned(IntNum(IntPow(base.n, exponent.n)))
    ELSE IF base.n = 0
         THEN Raise("ZeroDivisionError",
                    <<Lit("0.0 cannot be raised to a negative power")>>)
         ELSE Returned(PyTrueDiv(IntNum(1), IntNum(IntPow(base.n, -exponent.n))))

power(base, exponent) ==
    LET pow == PyPow(base, exponent)
    IN IF pow.raised THEN pow
       ELSE LET result == pow.value
            IN Returned([operation |-> "exponentiation",
                         expression |-> <<Str(base), Lit("^"), Str(exponent)>>,
                         result |-> result,
                         steps |-> << <<Lit("Step 1: Raise "), Str(base),
                                        Lit(" to the power of "), Str(exponent)>>,
                                      <<Str(base), Lit("^"), Str(exponent), Lit(" = "),
                                        Str(result)>>,
                                      <<Lit("Final result: "), Str(result)>> >>])

\* math.sqrt(x), x >= 0: a float, the root cut to a multiple of 1/SqrtScale
MathSqrt(x) ==
    LET s == CHOOSE r \in 0..((x.n + 1) * SqrtScale) :
                 /\ r * r <= x.n * SqrtScale * SqrtScale
                 /\ x.n * SqrtScale * SqrtScale < (r + 1) * (r + 1)
    IN PyTrueDiv(IntNum(s), IntNum(SqrtScale))

square_root(number) ==
    IF number.n < 0
    THEN Raise("ValueError",
               <<Lit("Cannot calculate square root of a negative number")>>)
    ELSE LET result == MathSqrt(number)
         IN Returned([operation |-> "square_root",
                      expression |-> <<Lit("sqrt"), Str(number)>>,
                      result |-> result,
                      steps |-> << <<Lit("Step 1: Find the square root of "), Str(number)>>,
                                   <<Lit("sqrt"), Str(number), Lit(" = "), Str(result)>>,
                                   <<Lit("Final result: "), Str(result)>> >>])

----------------------------------------------------------------------------
(* solve_equation and the str operations it uses.  An equation is a string *)
(* of one-character tokens: the digits Digit(0..9), "x", "+", "-", "=",    *)
(* " " and letters.                                                        *)

Digit(n) == Str(IntNum(n))
Ch(c) == Lit(c)

IsDigit(t) == t.k = "num"

\* s.replace(c, ''): the string without the character c
RECURSIVE Remove(_, _)
Remove(s, c) ==
    IF s = <<>> THEN <<>>
    ELSE (IF Head(s) = Ch(c) THEN <<>> ELSE <<Head(s)>>) \o Remove(Tail(s), c)

\* s.replace(c, d): the string with every character c turned into d
ReplaceCh(s, c, d) == [i \in 1..Len(s) |-> IF s[i] = Ch(c) THEN Ch(d) ELSE s[i]]

\* c in s
In(c, s) == \E i \in 1..Len(s) : s[i] = Ch(c)

\* the position of the first c in s (c in s)
First(c, s) == CHOOSE i \in 1..Len(s) : s[i] = Ch(c) /\ \A j \in 1..(i - 1) : s[j] # Ch(c)

\* s.split(c): the pieces of s between the occurrences of c
RECURSIVE Split(_, _)
Split(s, c) ==
    IF ~In(c, s) THEN <<s>>
    ELSE LET i == First(c, s)
         IN <<SubSeq(s, 1, i - 1)>> \o Split(SubSeq(s, i + 1, Len(s)), c)

\* s.split(c, 1) when c in s: the piece before the first c and the rest
SplitOnce(s, c) ==
    LET i == First(c, s) IN <<SubSeq(s, 1, i - 1), SubSeq(s, i + 1, Len(s))>>

\* the value of a string of digits
RECURSIVE DigitsValue(_)
DigitsValue(s) ==
    IF s = <<>> THEN 0 ELSE 10 * DigitsValue(SubSeq(s, 1, Len(s) - 1)) + s[Len(s)].x.n

\* float(s): an optional sign and one or more digits, ValueError otherwise
PyFloat(s) ==
    LET signed == s # <<>> /\ (s[1] = Ch("-") \/ s[1] = Ch("+"))
        digits == IF signed THEN Tail(s) ELSE s
    IN IF digits # <<>> /\ \A i \in 1..Len(digits) : IsDigit(digits[i])
       THEN LET v == DigitsValue(digits)
            IN Returned([n |-> IF signed /\ s[1] = Ch("-") THEN -v ELSE v,
                         d |-> 1, isFloat |-> TRUE])
       ELSE Raise("ValueError", <<Lit("could not convert string to float: ")>> \o s)

\* c + b on floats
PyFloatAdd(c, b) == PyTrueDiv(IntNum(c.n * b.d + b.n * c.d), IntNum(c.d * b.d))

\* c - b on floats
PyFloatSub(c, b) == PyTrueDiv(IntNum(c.n * b.d - b.n * c.d), IntNum(c.d * b.d))

\* the except branch catching ValueError alone
EquationError_narrow(equation, e) ==
    IF e.type # "ValueError" THEN Raise(e.type, e.msg)
    ELSE Returned([operation |-> "solve_equation",
                   equation |-> equation,
                   error |-> e.msg,
                   message |-> <<Lit("Failed to solve equation.")>>])

\* the dict of the except branch of solve_equation
EquationError(equation, e) ==
    Returned([operation |-> "solve_equation",
              equation |-> equation,
              error |-> e.msg,
              message |-> <<Lit("Failed to solve equation. Make sure it's in a supported format like '2x + 3 = 7'.")>>])

\* the dict of the return of solve_equation
EquationSolved(equation, left, right, a, b, c, x) ==
    Returned([operation |-> "solve_equation",
              equation |-> equation,
              result |-> x,
              steps |-> << <<Lit("Step 1: Start with the equation: ")>> \o equation,
                           <<Lit("Step 2: Isolate the variable x")>>,
                           left \o <<Lit(" = ")>> \o right,
                           ReplaceCh(left, "+", "-") \o <<Lit(" = ")>> \o right
                              \o <<Lit(" - "), Str(b)>>,
                           <<Str(a), Lit("x = "), Str(PyFloatSub(c, b))>>,
                           <<Lit("x = ("), Str(c), Lit(" - "), Str(b), Lit(") / "), Str(a)>>,
                           <<Lit("x = "), Str(x)>>,
                           <<Lit("Final solution: x = "), Str(x)>> >>])

\* the coefficient as solve_equation reads it: float of a_part without its
\* "x" when it has one, 1.0 otherwise
Coefficient(a_part) ==
    IF In("x", a_part) THEN PyFloat(Remove(a_part, "x"))
    ELSE Returned([n |-> 1, d |-> 1, isFloat |-> TRUE])

solve_equation(equation) ==
    LET parts == Split(Remove(equation, " "), "=")
    IN IF Len(parts) # 2
       THEN EquationError(equation,
               [type |-> "ValueError",
                msg |-> <<Lit("Equation must contain exactly one '='")>>])
       ELSE LET left == parts[1]
                right == parts[2]
            IN IF ~In("x", left)
               THEN EquationError(equation,
                       [type |-> "ValueError",
                        msg |-> <<Lit("Equation must contain 'x' on the left side")>>])
               ELSE IF ~In("+", left)
               THEN EquationError(equation,
                       [type |-> "ValueError",
                        msg |-> <<Lit("Unsupported equation format")>>])
               ELSE LET a_part == SplitOnce(left, "+")[1]
                        b_part == SplitOnce(left, "+")[2]
                        a == Coefficient(a_part)
                        b == PyFloat(b_part)
                        c == PyFloat(right)
                    IN IF a.raised THEN EquationError(equation, a.exc)
                       ELSE IF b.raised THEN EquationError(equation, b.exc)
                       ELSE IF c.raised THEN EquationError(equation, c.exc)
                       ELSE IF a.value.n = 0
                       THEN EquationError(equation,
                               [type |-> "ZeroDivisionError",
                                msg |-> <<Lit("float division by zero")>>])
                       ELSE EquationSolved(equation, left, right, a.value, b.value,
                                           c.value,
                                           PyTrueDiv(PyFloatSub(c.value, b.value),
                                                     a.value))

\* the tools registered on mcp_math_server
ServerTools == {"add", "subtract", "multiply", "divide", "power", "square_root",
                "solve_equation"}

\* the registered handler for name, applied to the argument dict
Handler(name, args) ==
    CASE name = "add" -> add(args.a, args.b)
      [] name = "subtract" -> subtract(args.a, args.b)
      [] name = "multiply" -> multiply(args.a, args.b)
      [] name = "divide" -> divide(args.a, args.b)
      [] name = "power" -> power(args.base, args.exponent)
      [] name = "square_root" -> square_root(args.number)
      [] name = "solve_equation" -> solve_equation(args.equation)

----------------------------------------------------------------------------
(* Messages (langchain_core.messages) and the state reducer (state.py)     *)

HumanMessage(content) ==
    [type |-> "human", content |-> content, tool_calls |-> <<>>, tool_call_id |-> 0]
SystemMessage(content) ==
    [type |-> "system", content |-> content, tool_calls |-> <<>>, tool_call_id |-> 0]
AIMessage(content, tool_calls) ==
    [type |-> "ai", content |-> content, tool_calls |-> tool_calls, tool_call_id |-> 0]
ToolMessage(content, tool_call_id) ==
    [type |-> "tool", content |-> content, tool_calls |-> <<>>,
     tool_call_id |-> tool_call_id]

\* the reducer with the update replacing the log
reducer_replace(x, y) == y

\* TestAgentState.messages: Annotated[..., lambda x, y: x + y]
reducer(x, y) == x \o y

----------------------------------------------------------------------------
(* The language model and the tool transport: external collaborators       *)

\* the names of the first list bound to the model (llm_tools, first assignment)
llm_tools_first ==
    {"add", "subtract", "multiply", "divide", "power", "square_root", "solve_equation"}

\* the names of the list bound last: llm_tools is assigned again and
\* llm_with_tools, which call_llm invokes, is bound to the second list
llm_tools == {"add_numbers"}

\* the (tool name, arguments) requests the model may emit: a call of the
\* tool it is offered, and calls of names it is not offered, which nothing
\* in call_llm or call_tool excludes
ModelToolCalls ==
    { [name |-> "multiply", args |-> [a |-> IntNum(123), b |-> IntNum(456)]],
      [name |-> "divide", args |-> [a |-> IntNum(1), b |-> IntNum(0)]],
      [name |-> "add_numbers", args |-> [a |-> IntNum(1), b |-> IntNum(1)]] }

\* text contents the model may answer with
ModelContents == { <<>>, <<Lit("text")>> }

\* the request lists of length 0..MaxCalls
RequestLists == UNION { [1..n -> ModelToolCalls] : n \in 0..MaxCalls }

\* tool calls get the ids first, first+1, ... : ids are unique in a thread
WithIds(reqs, first) ==
    [j \in 1..Len(reqs) |->
        [name |-> reqs[j].name, args |-> reqs[j].args, id |-> first + j - 1]]

\* result.text of a transport response: JSON text of a value, or other text
JsonDict(d) == [type |-> "dict", d |-> d]
JsonNumber(x) == [type |-> "number", d |-> [number |-> x]]
JsonText(value) == [isJson |-> TRUE, value |-> value, raw |-> <<Lit("<json>")>>]
PlainText(raw) == [isJson |-> FALSE, value |-> JsonDict([none |-> 0]), raw |-> raw]

Returns(text) == [kind |-> "returns", text |-> text, exc |-> NoExc]
Raises(type, msg) ==
    [kind |-> "raises", text |-> PlainText(<<>>), exc |-> [type |-> type, msg |-> msg]]

\* what mcp_client.call_tool("math_tools.<name>", args) can do
TransportOutcomes(name, args) ==
    LET unreachable == Raises("ConnectionError", <<Lit("server unreachable")>>)
    IN IF name \notin ServerTools
       THEN LET cause == <<Lit("Unknown tool: "), Lit(name)>>
            IN { Raises("ToolError", cause), Returns(PlainText(cause)) }
       ELSE LET h == Handler(name, args)
            IN IF h.raised
               THEN LET cause == <<Lit("Error executing tool "), Lit(name), Lit(": ")>>
                                 \o h.exc.msg
                    IN { Raises("ToolError", cause), Returns(PlainText(cause)) }
               ELSE { Returns(JsonText(JsonDict(h.value))),
                      Returns(JsonText(JsonNumber(IntNum(42)))),
                      Returns(PlainText(<<Lit("<html>Bad Gateway</html>")>>)),
                      unreachable }

----------------------------------------------------------------------------
(* graph.py: format_tool_response                                          *)

\* json.loads(text)
json_loads(text) ==
    IF text.isJson THEN Returned(text.value)
    ELSE Raise("JSONDecodeError", <<Lit("Expecting value")>>)

\* dict.get(key, default)
Get(d, key, default) == IF key \in DOMAIN d THEN d[key] ELSE default

\* str.capitalize() on the operation labels
Capitalize(s) ==
    CASE s = "addition" -> "Addition"
      [] s = "subtraction" -> "Subtraction"
      [] s = "multiplication" -> "Multiplication"
      [] s = "division" -> "Division"
      [] s = "calculation" -> "Calculation"
      [] OTHER -> s

\* "\n".join(lines)
RECURSIVE Join(_)
Join(lines) ==
    IF Len(lines) = 0 THEN <<>>
    ELSE IF Len(lines) = 1 THEN lines[1]
    ELSE lines[1] \o <<Lit("\n")>> \o Join(Tail(lines))

\* the "- <step>" lines of the steps that are not empty
RECURSIVE StepLines(_)
StepLines(steps) ==
    IF Len(steps) = 0 THEN <<>>
    ELSE (IF Head(steps) # <<>> THEN << <<Lit("- ")>> \o Head(steps) >> ELSE <<>>)
         \o StepLines(Tail(steps))

\* the formatter reporting an error without the message of the dict
format_tool_response_nomessage(tool_name, tool_result) ==
    IF tool_result.type # "dict"
    THEN Raise("TypeError", <<Lit("argument of type 'int' is not iterable")>>)
    ELSE LET d == tool_result.d
         IN IF "error" \in DOMAIN d
            THEN Returned(<<Lit("Error in "), Lit(tool_name), Lit(": ")>>
                          \o <<Lit("Unknown error")>>)
            ELSE LET operation == Get(d, "operation", "calculation")
                     expression == Get(d, "expression", <<>>)
                     steps == Get(d, "steps", <<>>)
                     header == << <<Lit("## "), Lit(Capitalize(operation)), Lit(": ")>>
                                  \o expression >>
                     stepPart == IF steps # <<>>
                                 THEN << <<Lit("### Steps:")>> >> \o StepLines(steps)
                                 ELSE <<>>
                     resultPart == IF "result" \in DOMAIN d
                                   THEN << <<Lit("\n**Final Result:** "), Str(d.result)>> >>
                                   ELSE <<>>
                 IN Returned(Join(header \o stepPart \o resultPart))

format_tool_response(tool_name, tool_result) ==
    IF tool_result.type # "dict"
    THEN Raise("TypeError", <<Lit("argument of type 'int' is not iterable")>>)
    ELSE LET d == tool_result.d
         IN IF "error" \in DOMAIN d
            THEN Returned(<<Lit("Error in "), Lit(tool_name), Lit(": ")>>
                          \o Get(d, "message", <<Lit("Unknown error")>>))
            ELSE LET operation == Get(d, "operation", "calculation")
                     expression == Get(d, "expression", <<>>)
                     steps == Get(d, "steps", <<>>)
                     header == << <<Lit("## "), Lit(Capitalize(operation)), Lit(": ")>>
                                  \o expression >>
                     stepPart == IF steps # <<>>
                                 THEN << <<Lit("### Steps:")>> >> \o StepLines(steps)
                                 ELSE <<>>
                     resultPart == IF "result" \in DOMAIN d
                                   THEN << <<Lit("\n**Final Result:** "), Str(d.result)>> >>
                                   ELSE <<>>
                 IN Returned(Join(header \o stepPart \o resultPart))

----------------------------------------------------------------------------
(* graph.py: the nodes, the router and the edges of the workflow           *)

MATH_SYSTEM_PROMPT == <<Lit("You are a helpful math tutor ...")>>

\* the AIMessage under execution in call_tool: state["messages"][-1]
ai_message == messages[Len(messages)]

\* the loop body with the unparsed response left out of the message
tool_message_for_noraw(tool_call, outcome) ==
    LET tool_name == tool_call.name
        error_msg(e) == <<Lit("Error calling tool "), Lit(tool_name), Lit(": ")>> \o e.msg
    IN IF outcome.kind = "raises"
       THEN ToolMessage(error_msg(outcome.exc), tool_call.id)
       ELSE LET parsed == json_loads(outcome.text)
            IN IF parsed.raised
               THEN ToolMessage(<<Lit("Tool response could not be parsed")>>, tool_call.id)
               ELSE LET formatted == format_tool_response(tool_name, parsed.value)
                    IN IF formatted.raised
                       THEN ToolMessage(error_msg(formatted.exc), tool_call.id)
                       ELSE ToolMessage(formatted.value, tool_call.id)

\* the loop body with an error message that names neither tool nor cause
tool_message_for_generic(tool_call, outcome) ==
    LET tool_name == tool_call.name
        error_msg(e) == <<Lit("Error calling tool")>>
    IN IF outcome.kind = "raises"
       THEN ToolMessage(error_msg(outcome.exc), tool_call.id)
       ELSE LET parsed == json_loads(outcome.text)
            IN IF parsed.raised
               THEN ToolMessage(<<Lit("Tool response could not be parsed: ")>>
                                \o outcome.text.raw, tool_call.id)
               ELSE LET formatted == format_tool_response(tool_name, parsed.value)
                    IN IF formatted.raised
                       THEN ToolMessage(error_msg(formatted.exc), tool_call.id)
                       ELSE ToolMessage(formatted.value, tool_call.id)

\* the loop body with the id of the tool call written into the content
tool_message_for_tagged(tool_call, outcome) ==
    LET tool_name == tool_call.name
        error_msg(e) == <<Lit("Error calling tool "), Lit(tool_name), Lit(": ")>> \o e.msg
    IN IF outcome.kind = "raises"
       THEN ToolMessage(error_msg(outcome.exc), tool_call.id)
       ELSE LET parsed == json_loads(outcome.text)
            IN IF parsed.raised
               THEN ToolMessage(<<Lit("Tool response could not be parsed: ")>>
                                \o outcome.text.raw, tool_call.id)
               ELSE LET formatted == format_tool_response(tool_name, parsed.value)
                    IN IF formatted.raised
                       THEN ToolMessage(error_msg(formatted.exc), tool_call.id)
                       ELSE ToolMessage(<<Lit("["), Str(IntNum(tool_call.id)), Lit("] ")>>
                                        \o formatted.value, tool_call.id)

\* one pass of the loop body of call_tool for tool_call, given what the
\* transport did: the ToolMessage that the pass appends to tool_messages.
\* A tool call of an AIMessage always has the key "id", so that
\* tool_call.get("id", "unknown") of the except branch is tool_call["id"].
tool_message_for(tool_call, outcome) ==
    LET tool_name == tool_call.name
        error_msg(e) == <<Lit("Error calling tool "), Lit(tool_name), Lit(": ")>> \o e.msg
    IN IF outcome.kind = "raises"
       THEN ToolMessage(error_msg(outcome.exc), tool_call.id)
       ELSE LET parsed == json_loads(outcome.text)
            IN IF parsed.raised
               THEN ToolMessage(<<Lit("Tool response could not be parsed: ")>>
                                \o outcome.text.raw, tool_call.id)
               ELSE LET formatted == format_tool_response(tool_name, parsed.value)
                    IN IF formatted.raised
                       THEN ToolMessage(error_msg(formatted.exc), tool_call.id)
                       ELSE ToolMessage(formatted.value, tool_call.id)

\* the router with a response that has text taken for the final answer
should_call_tool_text(state_messages) ==
    LET last_message == state_messages[Len(state_messages)]
    IN IF last_message.type = "ai" /\ last_message.tool_calls # <<>>
          /\ last_message.content = <<>>
       THEN "call_tool"
       ELSE IF last_message.type = "tool"
            THEN "call_llm"
            ELSE "END"

\* the router ending the turn once the log holds two responses of the model
should_call_tool_capped(state_messages) ==
    LET last_message == state_messages[Len(state_messages)]
        rounds == Cardinality({ i \in 1..Len(state_messages) :
                                  state_messages[i].type = "ai" })
    IN IF rounds >= 2
       THEN "END"
       ELSE IF last_message.type = "ai" /\ last_message.tool_calls # <<>>
            THEN "call_tool"
            ELSE IF last_message.type = "tool"
                 THEN "call_llm"
                 ELSE "END"

should_call_tool(state_messages) ==
    LET last_message == state_messages[Len(state_messages)]
    IN IF last_message.type = "ai" /\ last_message.tool_calls # <<>>
       THEN "call_tool"
       ELSE IF last_message.type = "tool"
            THEN "call_llm"
            ELSE "END"

\* add_conditional_edges("call_llm_node", should_call_tool, {...}): a route
\* without a mapped target is an error of the graph
conditional_edges(route) ==
    CASE route = "call_tool" -> "call_tool_node"
      [] route = "END" -> "END"
      [] OTHER -> "route_error"

\* how an invocation of the transport ended, as the loop body sees it
HowEnded(outcome) ==
    IF outcome.kind = "raises" THEN "raised"
    ELSE IF ~outcome.text.isJson THEN "not_json"
    ELSE IF outcome.text.value.type # "dict" THEN "malformed"
    ELSE IF "error" \in DOMAIN outcome.text.value.d THEN "error"
    ELSE "json"

\* the entries of toolLog, the record of the invocations of the transport
Invoked(tool_call) ==
    [ev |-> "invoke", id |-> tool_call.id, name |-> tool_call.name,
     args |-> tool_call.args, how |-> "", text |-> <<>>, value |-> PlainText(<<>>).value]
Completed(tool_call, outcome) ==
    [ev |-> "return", id |-> tool_call.id, name |-> tool_call.name,
     args |-> tool_call.args, how |-> HowEnded(outcome),
     text |-> IF outcome.kind = "raises" THEN outcome.exc.msg ELSE outcome.text.raw,
     value |-> outcome.text.value]

\* any(isinstance(m, SystemMessage) for m in messages)
AnySystemMessage(msgs) == \E i \in 1..Len(msgs) : msgs[i].type = "system"

\* call_llm passing the log to the model as it stands
with_system_message_bare(state_messages) == state_messages

\* the local list "messages" of call_llm, which llm_with_tools.invoke gets:
\* the log, with SystemMessage(MATH_SYSTEM_PROMPT) in front when the log
\* holds no SystemMessage
with_system_message(state_messages) ==
    IF ~AnySystemMessage(state_messages)
    THEN <<SystemMessage(MATH_SYSTEM_PROMPT)>> \o state_messages
    ELSE state_messages

\* call_llm: the model gets the list and answers; the reducer appends the
\* response; the conditional edge picks the next node
call_llm ==
    /\ pc = "call_llm_node"
    /\ llmCalls < MaxLLMCalls
    /\ \E reqs \in RequestLists, content \in ModelContents :
          /\ nextId + Len(reqs) - 1 <= MaxToolCalls
          /\ LET response == AIMessage(content, WithIds(reqs, nextId))
             IN /\ messages' = reducer(messages, <<response>>)
                /\ nextId' = nextId + Len(reqs)
                /\ pc' = conditional_edges(should_call_tool(messages'))
    /\ llm_input' = with_system_message(messages)
    /\ llmCalls' = llmCalls + 1
    /\ UNCHANGED <<idx, inflight, tool_messages, toolLog, turns, raised>>
    /\ UNCHANGED mathVars
    /\ UNCHANGED threadVars

\* call_llm catching the failure of the model and answering with a notice
call_llm_raises_swallow ==
    /\ pc = "call_llm_node"
    /\ llmCalls < MaxLLMCalls
    /\ \E e \in {"RateLimited", "Timeout"} : raised' = e
    /\ messages' = reducer(messages, <<AIMessage(<<Lit("model failed")>>, <<>>)>>)
    /\ pc' = conditional_edges(should_call_tool(messages'))
    /\ llm_input' = with_system_message(messages)
    /\ llmCalls' = llmCalls + 1
    /\ UNCHANGED <<idx, inflight, tool_messages, toolLog, nextId, turns>>
    /\ UNCHANGED mathVars
    /\ UNCHANGED threadVars

\* call_llm when llm_with_tools.invoke raises: nothing catches it, the run
\* of the graph ends with the exception
call_llm_raises ==
    /\ pc = "call_llm_node"
    /\ llmCalls < MaxLLMCalls
    /\ \E e \in {"RateLimited", "Timeout"} : raised' = e
    /\ pc' = "aborted"
    /\ llm_input' = with_system_message(messages)
    /\ llmCalls' = llmCalls + 1
    /\ UNCHANGED <<messages, idx, inflight, tool_messages, toolLog, nextId, turns>>
    /\ UNCHANGED mathVars
    /\ UNCHANGED threadVars

\* call_tool, entry: tool_messages = []
call_tool_begin ==
    /\ pc = "call_tool_node"
    /\ tool_messages' = <<>>
    /\ idx' = 1
    /\ pc' = "call_tool_loop"
    /\ UNCHANGED <<messages, inflight, toolLog, llmCalls, nextId, turns, raised>>
    /\ UNCHANGED mathVars
    /\ UNCHANGED threadVars
    /\ UNCHANGED llm_input

\* the loop of call_tool walking the tool calls from the last to the first
next_tool_call_reverse == Len(ai_message.tool_calls) - idx + 1

\* the tool call the loop of call_tool takes next
next_tool_call == idx

\* call_tool, loop: mcp_client.call_tool(...) is called for the next tool call
call_tool_invoke ==
    /\ pc = "call_tool_loop"
    /\ inflight = 0
    /\ idx <= Len(ai_message.tool_calls)
    /\ inflight' = next_tool_call
    /\ toolLog' = Append(toolLog, Invoked(ai_message.tool_calls[inflight']))
    /\ UNCHANGED <<messages, pc, idx, tool_messages, llmCalls, nextId, turns, raised>>
    /\ UNCHANGED mathVars
    /\ UNCHANGED threadVars
    /\ UNCHANGED llm_input

\* the loop body catching connection errors only: any other exception of
\* the pass leaves call_tool and ends the run
call_tool_result_reraise ==
    /\ pc = "call_tool_loop"
    /\ inflight # 0
    /\ LET tool_call == ai_message.tool_calls[inflight]
       IN \E outcome \in TransportOutcomes(tool_call.name, tool_call.args) :
             /\ toolLog' = Append(toolLog, Completed(tool_call, outcome))
             /\ IF \/ outcome.kind = "raises" /\ outcome.exc.type # "ConnectionError"
                   \/ HowEnded(outcome) = "malformed"
                THEN /\ raised' = "ToolError"
                     /\ pc' = "aborted"
                     /\ UNCHANGED <<tool_messages, idx>>
                ELSE /\ tool_messages' = Append(tool_messages,
                                                tool_message_for(tool_call, outcome))
                     /\ idx' = idx + 1
                     /\ UNCHANGED <<pc, raised>>
    /\ inflight' = 0
    /\ UNCHANGED <<messages, llmCalls, nextId, turns>>
    /\ UNCHANGED mathVars
    /\ UNCHANGED threadVars
    /\ UNCHANGED llm_input

\* the loop body passing over a call whose transport raised, appending nothing
call_tool_result_skip ==
    /\ pc = "call_tool_loop"
    /\ inflight # 0
    /\ LET tool_call == ai_message.tool_calls[inflight]
       IN \E outcome \in TransportOutcomes(tool_call.name, tool_call.args) :
             /\ tool_messages' = IF outcome.kind = "raises" THEN tool_messages
                                 ELSE Append(tool_messages,
                                             tool_message_for(tool_call, outcome))
             /\ toolLog' = Append(toolLog, Completed(tool_call, outcome))
    /\ inflight' = 0
    /\ idx' = idx + 1
    /\ UNCHANGED <<messages, pc, llmCalls, nextId, turns, raised>>
    /\ UNCHANGED mathVars
    /\ UNCHANGED threadVars
    /\ UNCHANGED llm_input

\* call_tool, loop: the call returns or raises, one ToolMessage is appended
\* to tool_messages
call_tool_result ==
    /\ pc = "call_tool_loop"
    /\ inflight # 0
    /\ LET tool_call == ai_message.tool_calls[inflight]
       IN \E outcome \in TransportOutcomes(tool_call.name, tool_call.args) :
             /\ tool_messages' = Append(tool_messages,
                                        tool_message_for(tool_call, outcome))
             /\ toolLog' = Append(toolLog, Completed(tool_call, outcome))
    /\ inflight' = 0
    /\ idx' = idx + 1
    /\ UNCHANGED <<messages, pc, llmCalls, nextId, turns, raised>>
    /\ UNCHANGED mathVars
    /\ UNCHANGED threadVars
    /\ UNCHANGED llm_input

\* call_tool followed by the router instead of the edge to call_llm_node
call_tool_return_routed ==
    /\ pc = "call_tool_loop"
    /\ inflight = 0
    /\ idx > Len(ai_message.tool_calls)
    /\ messages' = reducer(messages, tool_messages)
    /\ tool_messages' = <<>>
    /\ idx' = 0
    /\ pc' = conditional_edges(should_call_tool(messages'))
    /\ UNCHANGED <<inflight, toolLog, llmCalls, nextId, turns, raised>>
    /\ UNCHANGED mathVars
    /\ UNCHANGED threadVars
    /\ UNCHANGED llm_input

\* call_tool, return {"messages": tool_messages}; edge to call_llm_node
call_tool_return ==
    /\ pc = "call_tool_loop"
    /\ inflight = 0
    /\ idx > Len(ai_message.tool_calls)
    /\ messages' = reducer(messages, tool_messages)
    /\ tool_messages' = <<>>
    /\ idx' = 0
    /\ pc' = "call_llm_node"
    /\ UNCHANGED <<inflight, toolLog, llmCalls, nextId, turns, raised>>
    /\ UNCHANGED mathVars
    /\ UNCHANGED threadVars
    /\ UNCHANGED llm_input

\* the next user message on the thread: the checkpointed log is extended
\* through the reducer and the graph starts at call_llm_node
start_turn ==
    /\ pc = "END"
    /\ turns < MaxTurns
    /\ messages' = reducer(messages, <<HumanMessage(<<Lit("question")>>)>>)
    /\ turns' = turns + 1
    /\ pc' = "call_llm_node"
    /\ UNCHANGED <<idx, inflight, tool_messages, toolLog, llmCalls, nextId, raised>>
    /\ UNCHANGED mathVars
    /\ UNCHANGED threadVars
    /\ UNCHANGED llm_input

\* the conversation threads that run at the same time
Threads == {"A", "B"}

\* the module-level objects of graph.py that the nodes of every thread use
ModuleObjects ==
    [MATH_SYSTEM_PROMPT |-> MATH_SYSTEM_PROMPT,
     llm_with_tools |-> llm_tools,
     mcp_client |-> {"math_tools"}]

\* no thread is running
ThreadsParked ==
    /\ threads = [t \in Threads |->
                    [messages |-> <<>>, pc |-> "parked", idx |-> 0,
                     tool_messages |-> <<>>, llmCalls |-> 0]]
    /\ shared = ModuleObjects

\* the handlers are not under evaluation while the loop runs
MathParked ==
    /\ mathPc = "parked"
    /\ mathCall = [name |-> "add", args |-> [a |-> IntNum(0), b |-> IntNum(0)]]
    /\ mathOut = Returned(<<>>)

\* a thread with its first user message, with or without a SystemMessage
Init ==
    /\ messages \in { <<HumanMessage(<<Lit("question")>>)>>,
                      <<SystemMessage(MATH_SYSTEM_PROMPT),
                        HumanMessage(<<Lit("question")>>)>> }
    /\ pc = "call_llm_node"
    /\ idx = 0
    /\ inflight = 0
    /\ tool_messages = <<>>
    /\ toolLog = <<>>
    /\ llmCalls = 0
    /\ nextId = 1
    /\ turns = 1
    /\ raised = "none"
    /\ llm_input = <<>>
    /\ MathParked
    /\ ThreadsParked

Next ==
    \/ call_llm
    \/ call_llm_raises
    \/ call_tool_begin
    \/ call_tool_invoke
    \/ call_tool_result
    \/ call_tool_return
    \/ start_turn

Spec == Init /\ [][Next]_vars

----------------------------------------------------------------------------
(* SpecMath: the handlers applied to arguments from bounded sets           *)

Nums == { IntNum(n) : n \in (-MaxNum)..MaxNum }

\* the numbers written in the equations: 0..MaxNum, and the 7 of "2x + 3 = 7"
DigitVals == (0..MaxNum) \cup {7}

\* a number as it is written: a digit, with "-" in front when negative
Written(n) == IF n < 0 THEN <<Ch("-"), Digit(-n)>> ELSE <<Digit(n)>>

\* the string "<a>x <op> <b> = <c>"
Shape(a, op, b, c) ==
    a \o <<Ch("x"), Ch(" "), Ch(op), Ch(" ")>> \o b \o <<Ch(" "), Ch("="), Ch(" ")>> \o c

\* equations "<a>x <op> <b> = <c>": the coefficient may be missing or zero,
\* the operator may be "-", the terms may carry a sign or be a letter
Shaped ==
    { Shape(a, op, b, c) :
        a \in { Written(n) : n \in DigitVals } \cup {<<>>},
        op \in {"+", "-"},
        b \in { Written(n) : n \in DigitVals \cup {-1} } \cup {<<Ch("y")>>},
        c \in { Written(n) : n \in DigitVals } \cup {<<Ch("y")>>} }

\* strings of other shapes: no "=", two "=", no "x" on the left, two
\* operators, a product, the empty string
Misshaped ==
    { <<Digit(2), Ch("x"), Ch("+"), Digit(3)>>,
      <<Digit(2), Ch("x"), Ch("+"), Digit(3), Ch("="), Digit(1), Ch("="), Digit(1)>>,
      <<Digit(2), Ch("+"), Digit(3), Ch("="), Digit(1)>>,
      <<Digit(3), Ch("="), Digit(2), Ch("x"), Ch("+"), Digit(1)>>,
      <<Digit(2), Ch("x"), Ch("+"), Digit(3), Ch("+"), Digit(1), Ch("="), Digit(1)>>,
      <<Digit(2), Ch("x"), Ch("+"), Digit(3), Ch("-"), Digit(1), Ch("="), Digit(1)>>,
      <<Digit(2), Ch("x"), Ch("-"), Digit(3), Ch("+"), Digit(1), Ch("="), Digit(1)>>,
      <<Digit(2), Ch("*"), Ch("x"), Ch("+"), Digit(3), Ch("="), Digit(1)>>,
      <<>> }

Equations == Shaped \cup Misshaped

MathCalls ==
    { [name |-> t, args |-> [a |-> a, b |-> b]] :
        t \in {"add", "subtract", "multiply", "divide"}, a \in Nums, b \in Nums }
    \cup { [name |-> "power", args |-> [base |-> a, exponent |-> b]] :
             a \in Nums, b \in Nums }
    \cup { [name |-> "square_root", args |-> [number |-> a]] : a \in Nums }
    \cup { [name |-> "solve_equation", args |-> [equation |-> e]] : e \in Equations }

LoopParked ==
    /\ messages = <<>>
    /\ pc = "parked"
    /\ idx = 0
    /\ inflight = 0
    /\ tool_messages = <<>>
    /\ toolLog = <<>>
    /\ llmCalls = 0
    /\ nextId = 1
    /\ turns = 0
    /\ raised = "none"
    /\ llm_input = <<>>

MathInit ==
    /\ LoopParked
    /\ mathPc = "ready"
    /\ mathCall \in MathCalls
    /\ mathOut = Returned(<<>>)
    /\ ThreadsParked

\* the server runs the handler registered for the tool
invoke_handler ==
    /\ mathPc = "ready"
    /\ mathOut' = Handler(mathCall.name, mathCall.args)
    /\ mathPc' = "done"
    /\ UNCHANGED mathCall
    /\ UNCHANGED loopVars
    /\ UNCHANGED threadVars

MathNext == invoke_handler

SpecMath == MathInit /\ [][MathNext]_vars

----------------------------------------------------------------------------
(* SpecThreads: two conversation threads whose node executions interleave  *)
(* Each invocation of the graph has its own TestAgentState; the nodes get  *)
(* it as argument and return the update for it.                            *)

\* the first user message of thread t and the text of the answers to it
Question(t) == <<Lit("question of "), Lit(t)>>
Answer(t) == <<Lit("answer to "), Lit(t)>>

\* the id that the model gives the tool call of its k-th response (k from
\* 0) on thread t: ids are unique across threads
ThreadCallId(t, k) == 2 * k + (IF t = "A" THEN 1 ELSE 2)
ThreadIds(t) == { ThreadCallId(t, k) : k \in 0..(MaxThreadCalls - 1) }

\* the responses ask for no tool or for one
ThreadRequestLists == {<<>>} \cup { <<c>> : c \in ModelToolCalls }

ThreadsInit ==
    /\ LoopParked
    /\ MathParked
    /\ threads = [t \in Threads |->
                    [messages |-> <<HumanMessage(Question(t))>>,
                     pc |-> "call_llm_node", idx |-> 0,
                     tool_messages |-> <<>>, llmCalls |-> 0]]
    /\ shared = ModuleObjects

\* call_llm on the state of thread t
turn_call_llm(t) ==
    LET state == threads[t]
    IN /\ state.pc = "call_llm_node"
       /\ state.llmCalls < MaxThreadCalls
       /\ \E reqs \in ThreadRequestLists :
             LET response == AIMessage(Answer(t),
                                       WithIds(reqs, ThreadCallId(t, state.llmCalls)))
                 msgs == reducer(state.messages, <<response>>)
             IN threads' = [threads EXCEPT ![t] =
                               [state EXCEPT !.messages = msgs,
                                             !.pc = conditional_edges(should_call_tool(msgs)),
                                             !.llmCalls = @ + 1]]
       /\ UNCHANGED <<shared, loopVars, mathVars>>

\* call_tool on the state of thread t, entry: tool_messages = []
turn_call_tool_begin(t) ==
    LET state == threads[t]
    IN /\ state.pc = "call_tool_node"
       /\ threads' = [threads EXCEPT ![t] =
                         [state EXCEPT !.tool_messages = <<>>, !.idx = 1,
                                       !.pc = "call_tool_loop"]]
       /\ UNCHANGED <<shared, loopVars, mathVars>>

\* the loop body appending to one list that the threads share
turn_call_tool_pass_shared(t) ==
    LET state == threads[t]
        calls == Last(state.messages).tool_calls
    IN /\ state.pc = "call_tool_loop"
       /\ state.idx <= Len(calls)
       /\ \E outcome \in TransportOutcomes(calls[state.idx].name, calls[state.idx].args) :
             threads' = [u \in Threads |->
                           [threads[u] EXCEPT
                              !.tool_messages =
                                  IF u = t \/ threads[u].pc = "call_tool_loop"
                                  THEN Append(@, tool_message_for(calls[state.idx], outcome))
                                  ELSE @,
                              !.idx = IF u = t THEN @ + 1 ELSE @]]
       /\ UNCHANGED <<shared, loopVars, mathVars>>

\* call_tool on the state of thread t, one pass of the loop body: the call
\* of the transport and the ToolMessage appended to the local tool_messages
turn_call_tool_pass(t) ==
    LET state == threads[t]
        calls == Last(state.messages).tool_calls
    IN /\ state.pc = "call_tool_loop"
       /\ state.idx <= Len(calls)
       /\ \E outcome \in TransportOutcomes(calls[state.idx].name, calls[state.idx].args) :
             threads' = [threads EXCEPT ![t] =
                           [state EXCEPT
                              !.tool_messages =
                                  Append(@, tool_message_for(calls[state.idx], outcome)),
                              !.idx = @ + 1]]
       /\ UNCHANGED <<shared, loopVars, mathVars>>

\* call_tool on the state of thread t, return {"messages": tool_messages}
turn_call_tool_return(t) ==
    LET state == threads[t]
    IN /\ state.pc = "call_tool_loop"
       /\ state.idx > Len(Last(state.messages).tool_calls)
       /\ threads' = [threads EXCEPT ![t] =
                         [state EXCEPT
                            !.messages = reducer(state.messages, state.tool_messages),
                            !.tool_messages = <<>>, !.idx = 0,
                            !.pc = "call_llm_node"]]
       /\ UNCHANGED <<shared, loopVars, mathVars>>

ThreadsNext ==
    \E t \in Threads :
        \/ turn_call_llm(t)
        \/ turn_call_tool_begin(t)
        \/ turn_call_tool_pass(t)
        \/ turn_call_tool_return(t)

SpecThreads == ThreadsInit /\ [][ThreadsNext]_vars

----------------------------------------------------------------------------
(* SpecEquation: the workflow from the point where the model has asked for *)
(* solve_equation on an equation that the handler answers with its error   *)
(* dict                                                                    *)

\* equations that solve_equation answers with the dict of its except branch
FailingEquations ==
    { Shape(<<>>, "+", Written(3), Written(7)),
      Shape(Written(0), "+", Written(3), Written(7)),
      Shape(Written(2), "-", Written(3), Written(7)),
      Shape(Written(2), "+", <<Ch("y")>>, Written(7)) }

\* the log after call_llm appended a response with one solve_equation call
EquationInit ==
    /\ \E e \in FailingEquations, content \in ModelContents,
          first \in { <<>>, <<SystemMessage(MATH_SYSTEM_PROMPT)>> } :
          LET log == first \o <<HumanMessage(<<Lit("question")>>)>>
              request == [name |-> "solve_equation", args |-> [equation |-> e]]
          IN /\ messages = reducer(log, <<AIMessage(content, WithIds(<<request>>, 1))>>)
             /\ llm_input = with_system_message(log)
    /\ pc = conditional_edges(should_call_tool(messages))
    /\ idx = 0
    /\ inflight = 0
    /\ tool_messages = <<>>
    /\ toolLog = <<>>
    /\ llmCalls = 1
    /\ nextId = 2
    /\ turns = 1
    /\ raised = "none"
    /\ MathParked
    /\ ThreadsParked

SpecEquation == EquationInit /\ [][Next]_vars

----------------------------------------------------------------------------
(* Properties of the loop (Spec)                                           *)

\* the ids of the tool calls of every AIMessage of a log, in log order
RECURSIVE AllCallIds(_)
AllCallIds(msgs) ==
    IF msgs = <<>> THEN <<>>
    ELSE [j \in 1..Len(Head(msgs).tool_calls) |-> Head(msgs).tool_calls[j].id]
         \o AllCallIds(Tail(msgs))

\* the tool_call_ids of the ToolMessages of a log, in log order
RECURSIVE ToolMessageIds(_)
ToolMessageIds(msgs) ==
    IF msgs = <<>> THEN <<>>
    ELSE (IF Head(msgs).type = "tool" THEN <<Head(msgs).tool_call_id>> ELSE <<>>)
         \o ToolMessageIds(Tail(msgs))

\* the ids of the entries of toolLog of one kind, in log order
RECURSIVE LogIds(_, _)
LogIds(log, ev) ==
    IF log = <<>> THEN <<>>
    ELSE (IF Head(log).ev = ev THEN <<Head(log).id>> ELSE <<>>)
         \o LogIds(Tail(log), ev)

\* call_tool has run on the AIMessage at position k
Executed(k) == messages[k].type = "ai" /\ k < Len(messages)

\* C1: once call_tool has run on an AIMessage carrying N tool calls, exactly
\* N ToolMessages stand directly after it (the message after them, if any,
\* is not a ToolMessage), their tool_call_ids are pairwise distinct, and each
\* is the id of one tool call of that AIMessage.
C1_ResultsMatchCalls ==
    \A k \in 1..Len(messages) :
        Executed(k) =>
            LET calls == messages[k].tool_calls
                N == Len(calls)
            IN /\ k + N <= Len(messages)
               /\ \A j \in 1..N :
                     /\ messages[k + j].type = "tool"
                     /\ \E c \in 1..N : messages[k + j].tool_call_id = calls[c].id
               /\ \A j1, j2 \in 1..N :
                     j1 # j2 => messages[k + j1].tool_call_id # messages[k + j2].tool_call_id
               /\ k + N < Len(messages) => messages[k + N + 1].type # "tool"

C1_Witness ==
    \E k \in 1..Len(messages) :
        /\ Executed(k)
        /\ Len(messages[k].tool_calls) = 2
        /\ messages[k + 1].type = "tool"
        /\ messages[k + 2].type = "tool"

\* C2: a step in which the model answers appends exactly one AIMessage, and
\* the next node depends on its tool calls alone: call_tool when it has one
\* or more, END when it has none; at END there is no further invocation of
\* the model or of a tool.
C2_RoutingByToolCalls ==
    [][ /\ (llmCalls' # llmCalls /\ raised' = raised) =>
              /\ Len(messages') = Len(messages) + 1
              /\ SubSeq(messages', 1, Len(messages)) = messages
              /\ Last(messages').type = "ai"
              /\ (Last(messages').tool_calls # <<>> => pc' = "call_tool_node")
              /\ (Last(messages').tool_calls = <<>> => pc' = "END")
        /\ pc = "END" => (llmCalls' = llmCalls /\ toolLog' = toolLog)
      ]_vars

C2_Witness ==
    /\ pc = "END"
    /\ Last(messages).type = "ai"
    /\ Last(messages).tool_calls = <<>>
    /\ Last(messages).content = <<>>
    /\ \E k \in 1..Len(messages) :
          messages[k].tool_calls # <<>> /\ messages[k].content # <<>>

\* C3: the tool calls of a response are invoked one at a time, in the listed
\* order: an invocation starts only when the one before has returned, the
\* ToolMessages stand in the listed order, and the model is invoked again
\* only when every tool call of the log has its ToolMessage in the log.
C3_Sequential ==
    /\ [] /\ \A p \in 1..Len(toolLog) :
                /\ (p % 2 = 1) => toolLog[p].ev = "invoke"
                /\ (p % 2 = 0) => (toolLog[p].ev = "return"
                                     /\ toolLog[p].id = toolLog[p - 1].id)
          /\ IsPrefix(LogIds(toolLog, "invoke"), AllCallIds(messages))
          /\ ToolMessageIds(messages \o tool_messages) = LogIds(toolLog, "return")
          /\ IsPrefix(ToolMessageIds(messages), AllCallIds(messages))
    /\ [][llmCalls' # llmCalls =>
              ToolMessageIds(messages) = AllCallIds(messages)]_vars

C3_Witness ==
    /\ pc = "call_llm_node"
    /\ Len(toolLog) = 4
    /\ Len(Last(SubSeq(messages, 1, Len(messages) - 2)).tool_calls) = 2
    /\ ToolMessageIds(messages) = AllCallIds(messages)

\* C4: every step leaves the message log a prefix of the log after it.
C4_AppendOnly == [][IsPrefix(messages, messages')]_vars

C4_Witness ==
    /\ Len(messages) >= 5
    /\ \E k \in 1..Len(messages) : messages[k].type = "tool"
    /\ Last(messages).type = "ai"
    /\ turns = 1

\* the ToolMessages built so far: those of the log and those call_tool holds
Built == messages \o tool_messages

\* s ends with t
EndsWith(s, t) == Len(t) <= Len(s) /\ SubSeq(s, Len(s) - Len(t) + 1, Len(s)) = t

\* the step completes an invocation of the transport
Completes == toolLog' # toolLog /\ Last(toolLog').ev = "return"

\* C5: a tool call whose invocation fails (the transport raises, the handler
\* raises, the tool is unknown, the result is malformed) still gets its
\* ToolMessage; the pass appends it and goes on with the loop of call_tool,
\* nothing is raised to the caller, and call_tool ends by appending one
\* message per tool call and handing over to call_llm.
C5_ToolFailureAbsorbed ==
    /\ [] /\ \A p \in 1..Len(toolLog) :
                (toolLog[p].ev = "return" /\ toolLog[p].how # "json") =>
                    \E j \in 1..Len(Built) :
                        Built[j].type = "tool" /\ Built[j].tool_call_id = toolLog[p].id
          /\ pc \in {"call_tool_node", "call_tool_loop"} => raised = "none"
    /\ [][ /\ inflight # 0 =>
                 /\ pc' = "call_tool_loop"
                 /\ raised' = raised
                 /\ Len(tool_messages') = Len(tool_messages) + 1
                 /\ Last(tool_messages').tool_call_id = ai_message.tool_calls[inflight].id
                 /\ idx' = idx + 1
           /\ (pc = "call_tool_loop" /\ pc' # pc) =>
                 /\ pc' = "call_llm_node"
                 /\ Len(tool_messages) = Len(ai_message.tool_calls)
                 /\ messages' = messages \o tool_messages
         ]_vars

C5_Witness ==
    /\ pc = "call_llm_node"
    /\ Len(toolLog) = 4
    /\ toolLog[2].how = "raised"
    /\ toolLog[2].name = "divide"
    /\ toolLog[4].how = "malformed"
    /\ Len(ToolMessageIds(messages)) = 2

\* C6: when the invocation of the model fails the exception reaches the
\* caller: the failing step appends no message and invokes no tool, and
\* after it there is no invocation of the model or of a tool and no append.
C6_ModelFailureFatal ==
    /\ [](pc = "aborted" <=> raised # "none")
    /\ [][ /\ raised' # raised =>
                 /\ pc = "call_llm_node"
                 /\ pc' = "aborted"
                 /\ messages' = messages
                 /\ toolLog' = toolLog
           /\ pc = "aborted" =>
                 /\ messages' = messages
                 /\ llmCalls' = llmCalls
                 /\ toolLog' = toolLog
                 /\ pc' = "aborted"
         ]_vars

C6_Witness ==
    /\ pc = "aborted"
    /\ raised = "Timeout"
    /\ Len(toolLog) = 2
    /\ Last(messages).type = "tool"

\* C7: when the transport returns text that json.loads rejects, the pass
\* raises nothing and appends a ToolMessage with the id of that tool call
\* whose content ends with the text as returned.
C7_NonJsonPassedThrough ==
    /\ [] \A p \in 1..Len(toolLog) :
             (toolLog[p].ev = "return" /\ toolLog[p].how = "not_json") =>
                 /\ toolLog[p].text # <<>>
                 /\ \E j \in 1..Len(Built) :
                       /\ Built[j].type = "tool"
                       /\ Built[j].tool_call_id = toolLog[p].id
                       /\ EndsWith(Built[j].content, toolLog[p].text)
    /\ [][(Completes /\ Last(toolLog').how = "not_json") =>
              (pc' = "call_tool_loop" /\ raised' = "none")]_vars

C7_Witness ==
    /\ pc = "call_llm_node"
    /\ \E p \in 1..Len(toolLog) :
          /\ toolLog[p].how = "not_json"
          /\ toolLog[p].name = "multiply"
          /\ \E j \in 1..Len(messages) :
                /\ messages[j].tool_call_id = toolLog[p].id
                /\ messages[j].content =
                      <<Lit("Tool response could not be parsed: "),
                        Lit("<html>Bad Gateway</html>")>>

\* the log entries of the completed calls of tools the server does not have
UnknownReturns ==
    { p \in 1..Len(toolLog) :
         toolLog[p].ev = "return" /\ toolLog[p].name \notin ServerTools }

\* C8 as stated: a call of an unregistered tool gives a result whose message
\* is "unknown tool: <name>", and nothing is raised to the caller.
C8_UnknownToolMessage ==
    /\ raised # "ToolError"
    /\ \A p \in UnknownReturns :
          \E j \in 1..Len(Built) :
             /\ Built[j].type = "tool"
             /\ Built[j].tool_call_id = toolLog[p].id
             /\ Built[j].content = <<Lit("unknown tool: "), Lit(toolLog[p].name)>>

\* C8 amended: a call of an unregistered tool gives a ToolMessage with the id
\* of the call whose content is "Error calling tool <name>: <cause>" when the
\* transport raises and "Tool response could not be parsed: <text>" when it
\* returns the failure as text; the pass raises nothing to the caller.
C8_UnknownToolAbsorbed ==
    /\ [] \A p \in UnknownReturns :
             \E j \in 1..Len(Built) :
                /\ Built[j].type = "tool"
                /\ Built[j].tool_call_id = toolLog[p].id
                /\ toolLog[p].how \in {"raised", "not_json"}
                /\ toolLog[p].how = "raised" =>
                      Built[j].content =
                         <<Lit("Error calling tool "), Lit(toolLog[p].name), Lit(": ")>>
                         \o toolLog[p].text
                /\ toolLog[p].how = "not_json" =>
                      Built[j].content =
                         <<Lit("Tool response could not be parsed: ")>> \o toolLog[p].text
    /\ [][(Completes /\ Last(toolLog').name \notin ServerTools) =>
              (pc' = "call_tool_loop" /\ raised' = "none")]_vars

C8_Witness ==
    /\ pc = "call_llm_node"
    /\ \E p \in UnknownReturns : toolLog[p].how = "raised" /\ toolLog[p].name = "add_numbers"
    /\ \E j \in 1..Len(messages) :
          messages[j].content =
             <<Lit("Error calling tool "), Lit("add_numbers"), Lit(": "),
               Lit("Unknown tool: "), Lit("add_numbers")>>

----------------------------------------------------------------------------
(* Properties of the handlers (SpecMath)                                   *)

\* the handler of the call under evaluation has run
Evaluated(name) == mathPc = "done" /\ mathCall.name = name

\* C9 as stated: divide(a, 0) gives an error result: the handler returns a
\* dict with the error flag and without a result field.
C9_DivideByZeroErrorResult ==
    (Evaluated("divide") /\ mathCall.args.b.n = 0) =>
        /\ ~mathOut.raised
        /\ "error" \in DOMAIN mathOut.value
        /\ "result" \notin DOMAIN mathOut.value

\* C10: for b # 0, divide(a, b) returns a dict whose result is the quotient
\* a/b (result * b = a, as a float) and whose last step contains str(result).
C10_DivideQuotient ==
    (Evaluated("divide") /\ mathCall.args.b.n # 0) =>
        /\ ~mathOut.raised
        /\ "error" \notin DOMAIN mathOut.value
        /\ LET r == mathOut.value.result
               a == mathCall.args.a
               b == mathCall.args.b
           IN /\ r.d > 0
              /\ r.n * b.n * a.d = a.n * r.d * b.d
              /\ r.isFloat
              /\ mathOut.value.steps # <<>>
              /\ Contains(Last(mathOut.value.steps), r)

C10_Witness ==
    /\ Evaluated("divide")
    /\ mathCall.args.a.n = 3
    /\ mathCall.args.b.n = -2
    /\ ~mathOut.raised
    /\ mathOut.value.result = [n |-> -3, d |-> 2, isFloat |-> TRUE]

\* the dict the handler returned, when it returned one
out == mathOut.value

\* the handler returned a dict that carries the error flag
IsErrorResult == ~mathOut.raised /\ "error" \in DOMAIN out

\* the handler returned a dict without the error flag
IsSuccess == ~mathOut.raised /\ "error" \notin DOMAIN out

\* C11 as stated: square_root(x) gives an error result for x < 0 and, for
\* x >= 0, a result r with r * r <= x < (r + 1/SqrtScale) squared.
C11_SquareRoot ==
    Evaluated("square_root") =>
        LET x == mathCall.args.number
        IN /\ x.n < 0 => (IsErrorResult /\ "result" \notin DOMAIN out)
           /\ x.n >= 0 =>
                 /\ IsSuccess
                 /\ LET r == out.result
                    IN /\ r.n >= 0 /\ r.d > 0
                       /\ r.n * r.n <= x.n * r.d * r.d
                       /\ x.n * (r.d * SqrtScale) * (r.d * SqrtScale)
                            < (r.n * SqrtScale + r.d) * (r.n * SqrtScale + r.d)

\* C12: on "<a>x + <b> = <c>" with a written coefficient a # 0,
\* solve_equation returns a dict without the error flag whose result is
\* (c - b) / a; "2x + 3 = 7" gives 2.0.
C12_ExplicitCoefficient ==
    Evaluated("solve_equation") =>
        /\ \A a \in DigitVals \ {0}, b \in DigitVals \cup {-1}, c \in DigitVals :
              mathCall.args.equation = Shape(Written(a), "+", Written(b), Written(c)) =>
                 /\ IsSuccess
                 /\ out.result.d > 0
                 /\ out.result.isFloat
                 /\ out.result.n * a = (c - b) * out.result.d
        /\ mathCall.args.equation = Shape(Written(2), "+", Written(3), Written(7)) =>
              (IsSuccess /\ out.result = [n |-> 2, d |-> 1, isFloat |-> TRUE])

C12_Witness ==
    /\ Evaluated("solve_equation")
    /\ mathCall.args.equation = Shape(Written(2), "+", Written(3), Written(7))
    /\ IsSuccess
    /\ out.result = [n |-> 2, d |-> 1, isFloat |-> TRUE]

\* C13 as stated: on "x + <b> = <c>" solve_equation takes the coefficient
\* for 1 and returns a dict without the error flag whose result is c - b;
\* "x + 3 = 7" gives 4.0.
C13_ImplicitCoefficient ==
    Evaluated("solve_equation") =>
        \A b \in DigitVals \cup {-1}, c \in DigitVals :
            mathCall.args.equation = Shape(<<>>, "+", Written(b), Written(c)) =>
               /\ IsSuccess
               /\ out.result = [n |-> c - b, d |-> 1, isFloat |-> TRUE]

\* the strings outside the supported form: no "=" or two, no "x" on the
\* left, no "+" on the left, two operators, a zero coefficient, a term that
\* is not a number
Unsupported ==
    Misshaped
    \cup { Shape(a, "-", b, c) :
             a \in { Written(n) : n \in DigitVals },
             b \in { Written(n) : n \in DigitVals } \cup {<<Ch("y")>>},
             c \in { Written(n) : n \in DigitVals } \cup {<<Ch("y")>>} }
    \cup { Shape(Written(0), "+", Written(b), Written(c)) :
             b \in DigitVals, c \in DigitVals }
    \cup { Shape(Written(a), "+", <<Ch("y")>>, Written(c)) :
             a \in DigitVals, c \in DigitVals }
    \cup { Shape(Written(a), "+", Written(b), <<Ch("y")>>) :
             a \in DigitVals, b \in DigitVals }

C15_StepTrace ==
    (mathPc = "done" /\ IsSuccess) =>
        /\ "steps" \in DOMAIN out
        /\ out.steps # <<>>
        /\ Last(out.steps)[1] \in {Lit("Final result: "), Lit("Final solution: x = ")}
        /\ Contains(Last(out.steps), out.result)

C15_Witness ==
    /\ Evaluated("power")
    /\ mathCall.args.base.n = 2
    /\ mathCall.args.exponent.n = -1
    /\ IsSuccess
    /\ out.result = [n |-> 1, d |-> 2, isFloat |-> TRUE]
    /\ Last(out.steps) = <<Lit("Final result: "), Str(out.result)>>

\* the calls that are domain errors: a zero divisor, the root of a negative
\* number, zero to a negative power, an equation outside the form
DomainError ==
    \/ mathCall.name = "divide" /\ mathCall.args.b.n = 0
    \/ mathCall.name = "square_root" /\ mathCall.args.number.n < 0
    \/ mathCall.name = "power" /\ mathCall.args.base.n = 0
                               /\ mathCall.args.exponent.n < 0
    \/ mathCall.name = "solve_equation" /\ mathCall.args.equation \in Unsupported

\* C16 as stated: no handler raises; on a domain error the handler returns a
\* dict with the error flag.
C16_NoHandlerRaises ==
    mathPc = "done" =>
        /\ ~mathOut.raised
        /\ DomainError => IsErrorResult

----------------------------------------------------------------------------
(* Properties of the loop (Spec), continued                                *)

\* the contents of the ToolMessages built for the tool call with this id
ContentOf(id) ==
    { Built[j].content :
        j \in { i \in 1..Len(Built) :
                  Built[i].type = "tool" /\ Built[i].tool_call_id = id } }

\* the log entries of the calls for which the transport delivered the dict
\* of the handler
Delivered ==
    { p \in 1..Len(toolLog) : toolLog[p].ev = "return" /\ toolLog[p].how = "json" }

C18_OfferedToolsResolve ==
    \A k \in 1..Len(messages) :
        messages[k].type = "ai" =>
            /\ llm_tools = {"add", "subtract", "multiply", "divide", "power",
                            "square_root", "solve_equation"}
            /\ \A j \in 1..Len(messages[k].tool_calls) :
                  messages[k].tool_calls[j].name \in llm_tools =>
                      messages[k].tool_calls[j].name \in ServerTools

\* the log without the SystemMessage that may stand in front
Conversation ==
    IF messages[1].type = "system" THEN Tail(messages) ELSE messages

\* one turn that ran one multiply call, delivered by the transport, and
\* then ended with an answer of the model
MultiplyTurn ==
    /\ pc = "END"
    /\ turns = 1
    /\ llmCalls = 2
    /\ Len(toolLog) = 2
    /\ toolLog[2].ev = "return"
    /\ toolLog[2].name = "multiply"
    /\ toolLog[2].how = "json"

\* C19: after a turn of one user message in which the model requests one
\* multiply(a, b) and then answers without tool calls, the log is the user
\* message, the AIMessage with the multiply call, one ToolMessage with the id
\* of that call whose content ends with the final result a * b (56088 for
\* 123 and 456), and the AIMessage without tool calls.
C19_EndToEnd ==
    MultiplyTurn =>
        LET m == Conversation
        IN /\ Len(m) = 4
           /\ m[1].type = "human"
           /\ m[2].type = "ai"
           /\ Len(m[2].tool_calls) = 1
           /\ m[2].tool_calls[1].name = "multiply"
           /\ m[3].type = "tool"
           /\ m[3].tool_call_id = m[2].tool_calls[1].id
           /\ LET a == m[2].tool_calls[1].args.a
                  b == m[2].tool_calls[1].args.b
              IN /\ EndsWith(m[3].content,
                             <<Lit("\n**Final Result:** "), Str(IntNum(a.n * b.n))>>)
                 /\ (a = IntNum(123) /\ b = IntNum(456)) =>
                        Contains(m[3].content, IntNum(56088))
           /\ m[4].type = "ai"
           /\ m[4].tool_calls = <<>>

C19_Witness ==
    /\ MultiplyTurn
    /\ Len(Conversation) = 4
    /\ Conversation[2].tool_calls[1].args = [a |-> IntNum(123), b |-> IntNum(456)]
    /\ Contains(Conversation[3].content, IntNum(56088))
    /\ Conversation[4].tool_calls = <<>>

\* the number of SystemMessages of a log
RECURSIVE SystemCount(_)
SystemCount(msgs) ==
    IF msgs = <<>> THEN 0
    ELSE (IF Head(msgs).type = "system" THEN 1 ELSE 0) + SystemCount(Tail(msgs))

\* the step is an invocation of the model
InvokesModel == llmCalls' = llmCalls + 1

\* C23: the list that an invocation of the model gets holds a SystemMessage:
\* it is the log itself when the log holds one, and the log with
\* SystemMessage(MATH_SYSTEM_PROMPT) in front when it holds none. The
\* invocation appends the response of the model to the log and nothing else,
\* and no step changes the number of SystemMessages of the log.
C23_SystemMessageForModel ==
    [][ /\ InvokesModel =>
              /\ AnySystemMessage(llm_input')
              /\ AnySystemMessage(messages) => llm_input' = messages
              /\ ~AnySystemMessage(messages) =>
                    llm_input' = <<SystemMessage(MATH_SYSTEM_PROMPT)>> \o messages
              /\ \/ messages' = messages
                 \/ /\ Len(messages') = Len(messages) + 1
                    /\ SubSeq(messages', 1, Len(messages)) = messages
                    /\ Last(messages').type = "ai"
        /\ SystemCount(messages') = SystemCount(messages)
      ]_vars

C23_Witness ==
    /\ llmCalls = 2
    /\ pc = "END"
    /\ ~AnySystemMessage(messages)
    /\ Len(messages) = 4
    /\ llm_input = <<SystemMessage(MATH_SYSTEM_PROMPT)>> \o SubSeq(messages, 1, 3)

\* the routes of should_call_tool that add_conditional_edges maps to a node
MappedRoutes == {"call_tool", "END"}

\* C24: the router, which runs on the log right after the response of the
\* model was appended, returns "call_tool" or END and never "call_llm": the
\* run never stops for a route without a target, the last message is then
\* never a ToolMessage, and call_tool runs only on an AIMessage with at least
\* one tool call.
C24_RouterTotal ==
    /\ [] /\ pc # "route_error"
          /\ pc \in {"call_tool_node", "call_tool_loop"} =>
                /\ ai_message.type = "ai"
                /\ ai_message.tool_calls # <<>>
    /\ [][ (InvokesModel /\ messages' # messages) =>
              /\ Last(messages').type # "tool"
              /\ should_call_tool(messages') \in MappedRoutes
              /\ pc' = (IF should_call_tool(messages') = "call_tool"
                        THEN "call_tool_node" ELSE "END")
         ]_vars

C24_Witness ==
    /\ llmCalls = 2
    /\ pc = "call_tool_node"
    /\ messages[Len(messages) - 1].type = "tool"
    /\ should_call_tool(messages) = "call_tool"

\* the rounds of the running turn: the AIMessages with tool calls that
\* stand after the last HumanMessage of the log
RECURSIVE Rounds(_)
Rounds(msgs) ==
    IF msgs = <<>> \/ Last(msgs).type = "human" THEN 0
    ELSE (IF Last(msgs).type = "ai" /\ Last(msgs).tool_calls # <<>> THEN 1 ELSE 0)
         + Rounds(SubSeq(msgs, 1, Len(msgs) - 1))

\* C22: whatever the number of rounds behind it, a response of the model
\* with tool calls sends the turn to call_tool and from there back to the
\* model, and a response without tool calls ends the turn; the turn is at
\* END only after a response without tool calls, and call_tool, once all
\* its calls have returned, hands over to the model.
C22_NoRoundBound ==
    /\ [] /\ pc = "END" =>
                (Last(messages).type = "ai" /\ Last(messages).tool_calls = <<>>)
          /\ (pc = "call_tool_loop" /\ inflight = 0
                 /\ idx > Len(ai_message.tool_calls)) => ENABLED call_tool_return
    /\ [][ /\ (InvokesModel /\ messages' # messages) =>
                 /\ Last(messages').tool_calls # <<>> => pc' = "call_tool_node"
                 /\ Last(messages').tool_calls = <<>> => pc' = "END"
           /\ (pc = "call_tool_loop" /\ pc' # pc) => pc' = "call_llm_node"
         ]_vars

\* a turn that ended after as many rounds as the tool calls of the thread
\* allow
C22_Witness ==
    /\ pc = "END"
    /\ turns = 1
    /\ Rounds(messages) = MaxToolCalls
    /\ llmCalls = MaxToolCalls + 1

\* the log entries of the calls answered with a JSON dict that has the key
\* "error"
ErrorReturns ==
    { p \in 1..Len(toolLog) : toolLog[p].ev = "return" /\ toolLog[p].how = "error" }

\* the text that reports the error of the dict d of tool name
ErrorReport(name, d) ==
    <<Lit("Error in "), Lit(name), Lit(": ")>>
    \o (IF "message" \in DOMAIN d THEN d.message ELSE <<Lit("Unknown error")>>)

\* a JSON dict with the key "error" that has no message and has the keys of
\* a success, and the text that format_tool_response makes of it
ErrorWithResult ==
    [error |-> <<Lit("overflow")>>,
     operation |-> "multiplication",
     expression |-> <<Lit("partial")>>,
     result |-> IntNum(0),
     steps |-> << <<Lit("Step 1: started")>>, <<Lit("Final result: "), Str(IntNum(0))>> >>]
ErrorWithResultText == format_tool_response("multiply", JsonDict(ErrorWithResult))

\* C25: a JSON result with the key "error" gives the ToolMessage of that
\* call the content "Error in <tool>: <message>" and nothing of the other
\* keys of the dict; for a dict without message, whatever its other keys,
\* the text is "Error in <tool>: Unknown error". The pass raises nothing,
\* and after call_tool the model is invoked again.
C25_ErrorFieldReported ==
    /\ [] /\ \A p \in ErrorReturns :
                /\ ContentOf(toolLog[p].id) =
                      { ErrorReport(toolLog[p].name, toolLog[p].value.d) }
                /\ \A i \in 1..Len(messages) :
                      (messages[i].type = "tool"
                         /\ messages[i].tool_call_id = toolLog[p].id) =>
                          \/ pc \in {"call_llm_node", "aborted"}
                          \/ \E k \in (i + 1)..Len(messages) : messages[k].type = "ai"
          /\ ~ErrorWithResultText.raised
          /\ ErrorWithResultText.value =
                <<Lit("Error in "), Lit("multiply"), Lit(": "), Lit("Unknown error")>>
    /\ [][(Completes /\ Last(toolLog').how = "error") =>
              (pc' = "call_tool_loop" /\ raised' = "none")]_vars

C25_Witness ==
    /\ pc = "END"
    /\ llmCalls = 2
    /\ Len(toolLog) = 2
    /\ toolLog[2].how = "error"
    /\ toolLog[2].args.equation = Shape(<<>>, "+", Written(3), Written(7))
    /\ \E i \in 1..Len(messages) :
          /\ messages[i].tool_call_id = toolLog[2].id
          /\ messages[i].content =
                <<Lit("Error in "), Lit("solve_equation"), Lit(": "),
                  Lit("Failed to solve equation. Make sure it's in a supported format like '2x + 3 = 7'.")>>
          /\ messages[i + 1].type = "ai"

----------------------------------------------------------------------------
(* Properties of concurrent threads (SpecThreads)                          *)

\* message m belongs to thread t: the question of its user, an answer to it
\* with tool calls of its ids, or the result of one of its tool calls
Owns(t, m) ==
    CASE m.type = "human" -> m.content = Question(t)
      [] m.type = "ai" ->
            /\ m.content = Answer(t)
            /\ \A j \in 1..Len(m.tool_calls) : m.tool_calls[j].id \in ThreadIds(t)
      [] m.type = "tool" -> m.tool_call_id \in ThreadIds(t)
      [] OTHER -> FALSE

\* C21: with the nodes of two threads running interleaved, the log and the
\* tool_messages of each thread hold messages of that thread only, each
\* ToolMessage of a log answers a tool call of that log, a step changes the
\* state of one thread only, and the module-level objects are not changed.
C21_TurnsIsolated ==
    /\ [] \A t \in Threads :
             LET own == threads[t].messages \o threads[t].tool_messages
             IN /\ \A i \in 1..Len(own) : Owns(t, own[i])
                /\ \A i \in 1..Len(own) :
                      own[i].type = "tool" =>
                         \E k \in 1..(i - 1) :
                            /\ own[k].type = "ai"
                            /\ \E j \in 1..Len(own[k].tool_calls) :
                                  own[k].tool_calls[j].id = own[i].tool_call_id
    /\ [][ /\ shared' = shared
           /\ \E t \in Threads : \A u \in Threads \ {t} : threads'[u] = threads[u]
         ]_vars

\* both threads are inside call_tool with a ToolMessage built
C21_Witness ==
    \A t \in Threads :
        /\ threads[t].pc = "call_tool_loop"
        /\ Len(threads[t].tool_messages) = 1
        /\ threads[t].tool_messages[1].tool_call_id = ThreadCallId(t, 0)

====
